---- MODULE Spec2Model ----
(***************************************************************************)
(* WazowskiList: a FastAPI task-management backend over MongoDB.           *)
(*                                                                         *)
(* The model follows the request handlers of app/routers/auth.py and       *)
(* app/routers/task.py and the helpers of app/utils/utils.py.  A request   *)
(* is a coroutine: it is suspended at every awaited store operation, so    *)
(* each action below is one awaited store operation together with the      *)
(* synchronous code around it.  The two collections are sequences in the   *)
(* store's natural order (find/find_one/update_one/delete_one act on the   *)
(* first match in that order).                                             *)
(***************************************************************************)
EXTENDS Integers, Sequences, FiniteSets, TLC

VARIABLES users, tasks, tokens, now, reqs, motor_db

vars == <<users, tasks, tokens, now, reqs, motor_db>>

(***************************************************************************)
(* Bounds of the model                                                     *)
(***************************************************************************)
MaxUsers == 2
MaxTokens == 2
MaxTime == 3

(***************************************************************************)
(* Values                                                                  *)
(***************************************************************************)
\* Python None / an absent optional value (string-valued fields).
None == "None"
\* None in a datetime-valued field (Task.updated_at, User.updated_at).
NullTime == -1

Usernames == {"alice", "bob"}
Passwords == {"pw1", "pw2"}
Emails == {"e1"}

\* ACCESS_TOKEN_EXPIRE_MINUTES (environment), in clock ticks.
ACCESS_TOKEN_EXPIRE_MINUTES == 1
\* create_access_token without expires_delta: timedelta(minutes=15).
DefaultExpireMinutes == 15

\* passlib bcrypt: one-way, the result is never the plaintext.
get_hashed_password(password) ==
    CASE password = "pw1" -> "$2b$pw1"
      [] password = "pw2" -> "$2b$pw2"

verify_password(password, hashed_password) ==
    /\ password \in Passwords
    /\ hashed_password = get_hashed_password(password)

(***************************************************************************)
(* Store helpers (pymongo semantics)                                       *)
(***************************************************************************)
\* Index of the first document of coll that passes Test, 0 if none.
FirstIndex(coll, Test(_)) ==
    IF \E i \in 1..Len(coll) : Test(coll[i])
    THEN CHOOSE i \in 1..Len(coll) :
            /\ Test(coll[i])
            /\ \A j \in 1..(i - 1) : ~Test(coll[j])
    ELSE 0

\* {"$set": upd} applied to one document.
SetFields(doc, upd) ==
    [k \in (DOMAIN doc) \cup (DOMAIN upd) |->
        IF k \in DOMAIN upd THEN upd[k] ELSE doc[k]]

\* Sequence without its i-th element.
RemoveAt(coll, i) ==
    [j \in 1..(Len(coll) - 1) |-> IF j < i THEN coll[j] ELSE coll[j + 1]]

(***************************************************************************)
(* Tokens                                                                  *)
(***************************************************************************)
\* utils.create_access_token: the claims are the data plus the key
\* "expiration"; the registered claim "exp" is not written.
create_access_token(data, expires_delta) ==
    LET expire == IF expires_delta # 0 THEN now + expires_delta
                  ELSE now + DefaultExpireMinutes
    IN [kind |-> "jwt", sig |-> TRUE,
        claims |-> SetFields(data, [expiration |-> expire])]

\* What a client can put in the Authorization header besides an issued
\* token: nothing, a token whose signature does not verify, a token signed
\* with the key but carrying no "sub".
NoToken == [kind |-> "none"]
BadSigToken == [kind |-> "jwt", sig |-> FALSE,
                claims |-> [sub |-> "alice", expiration |-> MaxTime + 1]]
NoSubToken == [kind |-> "jwt", sig |-> TRUE, claims |-> [expiration |-> MaxTime + 1]]

\* jose.jwt.decode: JWTError when the signature does not verify;
\* ExpiredSignatureError (a JWTError) when an "exp" claim is in the past.
\* Claims under other keys are not interpreted.
jwt_decode(token) ==
    IF ~token.sig THEN "JWTError"
    ELSE IF "exp" \in DOMAIN token.claims /\ now > token.claims["exp"] THEN "JWTError"
    ELSE "ok"

(***************************************************************************)
(* Users                                                                   *)
(***************************************************************************)
NoUser == [found |-> FALSE, username |-> None, hashed_password |-> None]

\* utils.get_user: find_one({"username": username}); a User is built from
\* username and hashed_password only.  A document that does not validate
\* as User (username null) ends in the except branch, which returns None.
get_user(username) ==
    LET i == FirstIndex(users, LAMBDA d : d.username = username)
    IN IF i = 0 \/ username = None THEN NoUser
       ELSE [found |-> TRUE, username |-> users[i].username,
             hashed_password |-> users[i].hashed_password]

\* utils.authenticate_user
authenticate_user(username, password) ==
    LET user == get_user(username)
    IN IF ~user.found \/ ~verify_password(password, user.hashed_password)
       THEN NoUser ELSE user

\* utils.get_current_user (with the OAuth2PasswordBearer dependency):
\* the status it ends with (0: resolved) and the user.
get_current_user(token) ==
    IF token.kind = "none" THEN [status |-> 401, user |-> NoUser]
    ELSE IF jwt_decode(token) # "ok" THEN [status |-> 500, user |-> NoUser]
    ELSE IF "sub" \notin DOMAIN token.claims THEN [status |-> 401, user |-> NoUser]
    ELSE LET user == get_user(token.claims["sub"])
         IN IF ~user.found THEN [status |-> 401, user |-> NoUser]
            ELSE [status |-> 0, user |-> user]

(***************************************************************************)
(* Requests                                                                *)
(***************************************************************************)
Slots == {"r1", "r2"}

\* Secured with delete_task left out.
Secured_DeleteOpen == {"read_my_user", "update_user", "create_task", "update_task",
                       "get_task"}

\* Handlers declared with Depends(get_current_user).
Secured == {"read_my_user", "update_user", "create_task", "update_task",
            "delete_task", "get_task"}

Idle == [op |-> "idle", pc |-> "idle", token |-> NoToken, user |-> NoUser,
         args |-> <<>>, status |-> 0, body |-> <<>>, log |-> <<>>,
         tmp |-> <<>>, tauth |-> NullTime]

\* The request in slot r ends with an HTTP status and a response body.
Respond(r, code, body, ops) ==
    reqs' = [reqs EXCEPT ![r] = [@ EXCEPT !.pc = "done", !.status = code,
                                          !.body = body, !.log = @ \o ops]]

\* The request in slot r goes on to its next awaited operation.
Continue(r, pc, tmp, ops) ==
    reqs' = [reqs EXCEPT ![r] = [@ EXCEPT !.pc = pc, !.tmp = tmp,
                                          !.log = @ \o ops]]

\* What a client can present as a bearer token.
Presentable == tokens \cup {NoToken, BadSigToken, NoSubToken}

\* A request arrives; the framework resolves the handler's dependencies
\* first, so a secured handler starts at the auth gate.  Only a request with
\* a token the service issued is given a body: no handler reads the body of
\* any other.
Receive(r, op, Args) ==
    /\ reqs[r].pc \in {"idle", "done"}
    /\ \E t \in (IF op \in Secured THEN Presentable ELSE {NoToken}) :
       \E a \in (IF op \in Secured /\ t \notin tokens THEN {<<>>} ELSE Args) :
          reqs' = [reqs EXCEPT ![r] =
                      [Idle EXCEPT !.op = op, !.token = t, !.args = a,
                                   !.pc = IF op \in Secured THEN "auth" ELSE "body"]]
    /\ UNCHANGED <<users, tasks, tokens, now, motor_db>>

\* Depends(get_current_user) of the request in slot r.
Authenticate(r) ==
    /\ reqs[r].pc = "auth"
    /\ LET res == get_current_user(reqs[r].token)
           looked == /\ reqs[r].token.kind = "jwt"
                     /\ jwt_decode(reqs[r].token) = "ok"
                     /\ "sub" \in DOMAIN reqs[r].token.claims
           ops == IF looked THEN <<"users.find_one">> ELSE <<>>
       IN IF res.status = 0
          THEN reqs' = [reqs EXCEPT ![r] = [@ EXCEPT !.pc = "body", !.user = res.user,
                                                     !.tauth = now, !.log = @ \o ops]]
          ELSE reqs' = [reqs EXCEPT ![r] = [@ EXCEPT !.pc = "done", !.status = res.status,
                                                     !.tauth = now, !.log = @ \o ops]]
    /\ UNCHANGED <<users, tasks, tokens, now, motor_db>>

(***************************************************************************)
(* app/routers/auth.py                                                     *)
(***************************************************************************)
\* schemas.CreateUser: username and password are required strings.
CreateUserRequired == {"username", "password"}
UserFields == {"username", "password", "email", "full_name"}

\* Field f of a payload, None when the key is absent.
Field(payload, f) == IF f \in DOMAIN payload THEN payload[f] ELSE None

ValidCreateUser(payload) ==
    \A f \in CreateUserRequired : f \in DOMAIN payload /\ payload[f] # None

\* The user document of POST /register: User(...).model_dump().
NewUserDoc(payload) ==
    [id |-> Len(users) + 1,
     username |-> payload["username"],
     email |-> Field(payload, "email"),
     full_name |-> Field(payload, "full_name"),
     hashed_password |-> get_hashed_password(payload["password"]),
     created_at |-> now,
     updated_at |-> NullTime]

\* The user serialised with its hash.
UserResponse_WithHash(u) ==
    [username |-> u.username, email |-> u.email, created_at |-> u.created_at,
     hashed_password |-> u.hashed_password]

\* response_model=UserResponse
UserResponse(u) ==
    [username |-> u.username, email |-> u.email, created_at |-> u.created_at]

\* POST /register
create_user(r) ==
    /\ reqs[r].op = "register" /\ reqs[r].pc = "body"
    /\ LET payload == reqs[r].args
       IN IF ~ValidCreateUser(payload)
          THEN /\ Respond(r, 422, <<>>, <<>>)
               /\ UNCHANGED users
          ELSE /\ users' = Append(users, NewUserDoc(payload))
               /\ Respond(r, 200, <<UserResponse(NewUserDoc(payload))>>,
                          <<"users.insert_one">>)
    /\ UNCHANGED <<tasks, tokens, now, motor_db>>

\* POST /token
login_for_access_token(r) ==
    /\ reqs[r].op = "login" /\ reqs[r].pc = "body"
    /\ LET user == authenticate_user(reqs[r].args.username, reqs[r].args.password)
           access_token == create_access_token([sub |-> user.username],
                                               ACCESS_TOKEN_EXPIRE_MINUTES)
       IN IF ~user.found
          THEN /\ Respond(r, 401, <<>>, <<"users.find_one">>)
               /\ UNCHANGED tokens
          ELSE /\ tokens' = tokens \cup {access_token}
               /\ Respond(r, 200, <<access_token>>, <<"users.find_one">>)
    /\ UNCHANGED <<users, tasks, now, motor_db>>

\* GET /users/me: current_user carries username and hashed_password only.
read_my_user(r) ==
    /\ reqs[r].op = "read_my_user" /\ reqs[r].pc = "body"
    /\ Respond(r, 200, <<[username |-> reqs[r].user.username, email |-> None,
                          created_at |-> now]>>, <<>>)
    /\ UNCHANGED <<users, tasks, tokens, now, motor_db>>

(***************************************************************************)
(* POST /users/me                                                          *)
(***************************************************************************)
\* schemas.UpdateUser: __annotations__ is rebuilt as Optional[...] without
\* defaults, so every field may be null but none may be left out.
UpdateUserRequired == UserFields

\* update_user_data.model_dump(exclude_unset=True)
model_dump_exclude_unset(payload) ==
    [k \in (DOMAIN payload) \cap UserFields |-> payload[k]]

\* update_data handed on as it was dumped.
HashPasswordField_Plain(update_data) == update_data

\* "password" is popped and replaced by "hashed_password".
HashPasswordField(update_data) ==
    IF "password" \in DOMAIN update_data
    THEN [k \in ((DOMAIN update_data) \ {"password"}) \cup {"hashed_password"} |->
            IF k = "hashed_password"
            THEN get_hashed_password(update_data["password"])
            ELSE update_data[k]]
    ELSE update_data

\* The response of POST /users/me once updated_user was looked up.
\* UserResponseUpdate needs a string username.
UpdateUserResponse(r, updated_user, ops) ==
    IF Len(updated_user) = 0
    THEN Respond(r, 404, <<>>, ops)
    ELSE IF updated_user[1].username = None
    THEN Respond(r, 500, <<>>, ops)
    ELSE Respond(r, 200, <<[username |-> updated_user[1].username,
                            email |-> updated_user[1].email,
                            created_at |-> updated_user[1].created_at,
                            updated_at |-> now]>>, ops)

\* update_user up to collection.update_one on users
update_user(r) ==
    /\ reqs[r].op = "update_user" /\ reqs[r].pc = "body"
    /\ LET payload == reqs[r].args
           current == reqs[r].user.username
           dumped == model_dump_exclude_unset(payload)
           i == FirstIndex(users, LAMBDA d : d.username = current)
       IN IF ~(UpdateUserRequired \subseteq DOMAIN payload)
          THEN /\ Respond(r, 422, <<>>, <<>>)
               /\ UNCHANGED users
          ELSE IF "password" \in DOMAIN dumped /\ dumped["password"] = None
          THEN \* myctx.hash(None) raises TypeError outside any try
               /\ Respond(r, 500, <<>>, <<>>)
               /\ UNCHANGED users
          ELSE IF DOMAIN dumped = {}
          THEN \* "$set" of nothing is a WriteError, answered 404
               /\ Respond(r, 404, <<>>, <<"users.update_one">>)
               /\ UNCHANGED users
          ELSE IF i = 0
          THEN /\ Respond(r, 404, <<>>, <<"users.update_one">>)
               /\ UNCHANGED users
          ELSE /\ users' = [users EXCEPT ![i] = SetFields(@, HashPasswordField(dumped))]
               /\ Continue(r, "refetch", <<>>, <<"users.update_one">>)
    /\ UNCHANGED <<tasks, tokens, now, motor_db>>

\* update_user: collection.find_one by the new (or current) username
update_user_refetch(r) ==
    /\ reqs[r].op = "update_user" /\ reqs[r].pc = "refetch"
    /\ LET payload == reqs[r].args
           key == IF "username" \in DOMAIN model_dump_exclude_unset(payload)
                  THEN payload["username"] ELSE reqs[r].user.username
           i == FirstIndex(users, LAMBDA d : d.username = key)
           updated_user == IF i = 0 THEN <<>> ELSE <<users[i]>>
       IN IF Field(payload, "username") # None
          THEN Continue(r, "cascade", updated_user, <<"users.find_one">>)
          ELSE UpdateUserResponse(r, updated_user, <<"users.find_one">>)
    /\ UNCHANGED <<users, tasks, tokens, now, motor_db>>

\* utils.update_username_dependencies: update_many on tasks
update_username_dependencies(old_username, new_username) ==
    [i \in 1..Len(tasks) |->
        IF tasks[i].owner = old_username
        THEN [tasks[i] EXCEPT !.owner = new_username]
        ELSE tasks[i]]

\* update_user: the cascade and the response
update_user_cascade(r) ==
    /\ reqs[r].op = "update_user" /\ reqs[r].pc = "cascade"
    /\ tasks' = update_username_dependencies(reqs[r].user.username,
                                             reqs[r].args["username"])
    /\ UpdateUserResponse(r, reqs[r].tmp, <<"tasks.update_many">>)
    /\ UNCHANGED <<users, tokens, now, motor_db>>

(***************************************************************************)
(* app/routers/task.py                                                     *)
(***************************************************************************)
\* Well-formed UUID strings and what uuid.UUID makes of a path parameter:
\* upper-case hex is accepted and denotes the same UUID.
UUIDs == {"t1", "t2", "t3"}
PathIds == {"T1", "t3", "zz"}

IsUUID(task_id) == task_id \in {"t1", "T1", "t2", "t3"}

ParseUUID(task_id) == IF task_id = "T1" THEN "t1" ELSE task_id

\* schemas.CreateTask declares title, description and status.
CreateTaskFields == {"title", "description", "status"}

\* schemas.UpdateTask: as UpdateUser, every field nullable, none optional.
UpdateTaskRequired == CreateTaskFields

\* utils.convert_to_task_response
convert_to_task_response(task) ==
    [id |-> task.id, title |-> task.title, description |-> task.description,
     status |-> task.status, owner |-> task.owner, label |-> task.label,
     created_at |-> task.created_at, updated_at |-> task.updated_at]

\* The document create_task would insert: Task(...).model_dump(); models.Task
\* has no deadline field.
NewTaskDoc(payload, owner, id) ==
    [id |-> id, title |-> payload["title"],
     description |-> Field(payload, "description"),
     status |-> IF "status" \in DOMAIN payload THEN payload["status"] ELSE "not done",
     owner |-> owner,
     label |-> Field(payload, "label"), deadline |-> NullTime,
     created_at |-> now, updated_at |-> NullTime]

\* POST /tasks: the handler reads task.deadline and task.label of a
\* CreateTask before the insert.
create_task(r) ==
    /\ reqs[r].op = "create_task" /\ reqs[r].pc = "body"
    /\ LET payload == reqs[r].args
           fresh == UUIDs \ {tasks[i].id : i \in 1..Len(tasks)}
       IN IF "title" \notin DOMAIN payload \/ payload["title"] = None
          THEN /\ Respond(r, 422, <<>>, <<>>)
               /\ UNCHANGED tasks
          ELSE IF ~({"deadline", "label"} \subseteq CreateTaskFields)
          THEN \* AttributeError outside any try
               /\ Respond(r, 500, <<>>, <<>>)
               /\ UNCHANGED tasks
          ELSE \E id \in fresh :
                 /\ tasks' = Append(tasks, NewTaskDoc(payload, reqs[r].user.username, id))
                 /\ Respond(r, 200,
                            <<convert_to_task_response(
                                NewTaskDoc(payload, reqs[r].user.username, id))>>,
                            <<"tasks.insert_one">>)
    /\ UNCHANGED <<users, tokens, now, motor_db>>

\* update_filter matching on the id alone.
update_filter_IdOnly(d, task_uuid, username) == d.id = task_uuid

\* The filter of update_one: {"id": task_uuid, "owner": current_user.username}
update_filter(d, task_uuid, username) == d.id = task_uuid /\ d.owner = username

\* delete_filter matching on the id alone.
delete_filter_IdOnly(d, task_uuid, username) == d.id = task_uuid

\* The filter of delete_one: {"id": uuid.UUID(task_id), "owner": current_user.username}
delete_filter(d, task_uuid, username) == d.id = task_uuid /\ d.owner = username

\* The offset of the host's local time from UTC, in clock units, at the
\* moment of a call: the host's time zone is a setting of the deployment.
UTCOffsets == {-1, 0}

\* datetime.now(): the local wall clock, without zone.  created_at and the
\* other timestamps are datetime.utcnow().
datetime_now(off) == now + off

\* task_update.model_dump() with its null fields kept.
NonNoneFields_KeepNull(payload) == [k \in UpdateTaskRequired |-> payload[k]]

\* {k: v for k, v in task_update.model_dump().items() if v is not None}
NonNoneFields(payload) ==
    LET keys == {k \in UpdateTaskRequired : payload[k] # None}
    IN [k \in keys |-> payload[k]]

\* A body that passes validation and gives some field a value: the handler
\* gets as far as update_one.
NonEmptyFullUpdate(payload) ==
    /\ UpdateTaskRequired \subseteq DOMAIN payload
    /\ DOMAIN NonNoneFields(payload) # {}

\* PUT /tasks/{task_id} up to collection.update_one
update_task(r) ==
    /\ reqs[r].op = "update_task" /\ reqs[r].pc = "body"
    /\ LET payload == reqs[r].args.task_update
           task_id == reqs[r].args.task_id
       IN IF ~(UpdateTaskRequired \subseteq DOMAIN payload)
          THEN /\ Respond(r, 422, <<>>, <<>>)
               /\ UNCHANGED tasks
          ELSE IF DOMAIN NonNoneFields(payload) = {}
          THEN /\ Respond(r, 400, <<>>, <<>>)
               /\ UNCHANGED tasks
          ELSE IF ~IsUUID(task_id)
          THEN /\ Respond(r, 400, <<>>, <<>>)
               /\ UNCHANGED tasks
          ELSE \E off \in UTCOffsets :
               LET update_data == SetFields(NonNoneFields(payload),
                                            [updated_at |-> datetime_now(off)])
                   i == FirstIndex(tasks, LAMBDA d :
                            update_filter(d, ParseUUID(task_id), reqs[r].user.username))
               IN IF i = 0
                  THEN /\ Respond(r, 404, <<>>, <<"tasks.update_one">>)
                       /\ UNCHANGED tasks
                  ELSE /\ tasks' = [tasks EXCEPT ![i] = SetFields(@, update_data)]
                       /\ IF SetFields(tasks[i], update_data) = tasks[i]
                          THEN \* modified_count = 0
                               Respond(r, 500, <<>>, <<"tasks.update_one">>)
                          ELSE Continue(r, "refetch", <<>>, <<"tasks.update_one">>)
    /\ UNCHANGED <<users, tokens, now, motor_db>>

\* update_task_refetch answering 200 whatever find_one returns.
update_task_refetch_Blind(r) ==
    /\ reqs[r].op = "update_task" /\ reqs[r].pc = "refetch"
    /\ LET i == FirstIndex(tasks, LAMBDA d : d.id = ParseUUID(reqs[r].args.task_id))
       IN Respond(r, 200, IF i = 0 THEN <<>> ELSE <<convert_to_task_response(tasks[i])>>,
                  <<"tasks.find_one">>)
    /\ UNCHANGED <<users, tasks, tokens, now, motor_db>>

\* update_task: collection.find_one({"id": task_uuid}) and the response
update_task_refetch(r) ==
    /\ reqs[r].op = "update_task" /\ reqs[r].pc = "refetch"
    /\ LET i == FirstIndex(tasks, LAMBDA d : d.id = ParseUUID(reqs[r].args.task_id))
       IN IF i = 0
          THEN Respond(r, 404, <<>>, <<"tasks.find_one">>)
          ELSE Respond(r, 200, <<convert_to_task_response(tasks[i])>>, <<"tasks.find_one">>)
    /\ UNCHANGED <<users, tasks, tokens, now, motor_db>>

\* DELETE /tasks/{task_id}
delete_task(r) ==
    /\ reqs[r].op = "delete_task" /\ reqs[r].pc = "body"
    /\ LET task_id == reqs[r].args.task_id
           i == FirstIndex(tasks, LAMBDA d :
                    delete_filter(d, ParseUUID(task_id), reqs[r].user.username))
       IN IF ~IsUUID(task_id)
          THEN \* uuid.UUID raises ValueError outside any try
               /\ Respond(r, 500, <<>>, <<>>)
               /\ UNCHANGED tasks
          ELSE IF i = 0
          THEN /\ Respond(r, 404, <<>>, <<"tasks.delete_one">>)
               /\ UNCHANGED tasks
          ELSE /\ tasks' = RemoveAt(tasks, i)
               /\ Respond(r, 200, <<>>, <<"tasks.delete_one">>)
    /\ UNCHANGED <<users, tokens, now, motor_db>>

(***************************************************************************)
(* GET /tasks                                                              *)
(***************************************************************************)
\* Query(le=500) on limit
LimitCeiling == 500

\* datetime.combine(d, datetime.min.time()): datetimes count half days,
\* dates count days.
Midnight(d) == 2 * d

\* MatchesQuery without the owner scope.
MatchesQuery_Unscoped(d, q, username) ==
    /\ (q.task_status \notin {None, ""} => d.status = q.task_status)
    /\ (q.include_labels # {} => d.label \in q.include_labels)
    /\ (q.max_deadline # NullTime =>
           d.deadline # NullTime /\ d.deadline <= Midnight(q.max_deadline))
    /\ (q.min_deadline # NullTime =>
           d.deadline # NullTime /\ d.deadline >= Midnight(q.min_deadline))

\* The filter document built by get_task, as a predicate on a task.  "if
\* task_status:" skips the status filter for None and for the empty string.
MatchesQuery(d, q, username) ==
    /\ d.owner = username
    /\ (q.task_status \notin {None, ""} => d.status = q.task_status)
    /\ (q.include_labels # {} => d.label \in q.include_labels)
    /\ (q.max_deadline # NullTime =>
           d.deadline # NullTime /\ d.deadline <= Midnight(q.max_deadline))
    /\ (q.min_deadline # NullTime =>
           d.deadline # NullTime /\ d.deadline >= Midnight(q.min_deadline))

\* sort_criteria of get_task: <<field, direction>>, or <<>> for no sort.
SortCriteria(q) ==
    LET sort_order_value == IF q.sort_order = "asc" THEN 1
                            ELSE IF q.sort_order = "desc" THEN -1 ELSE 0
    IN IF q.sort_by # None /\ sort_order_value # 0
       THEN <<q.sort_by, sort_order_value>> ELSE <<>>

\* s with x inserted behind every element that does not sort after it.
RECURSIVE InsertSorted(_, _, _)
InsertSorted(s, x, crit) ==
    IF s = <<>> THEN <<x>>
    ELSE IF crit[2] * Head(s)[crit[1]] <= crit[2] * x[crit[1]]
    THEN <<Head(s)>> \o InsertSorted(Tail(s), x, crit)
    ELSE <<x>> \o s

\* cursor.sort(sort_criteria); null sorts lowest.
RECURSIVE SortBy(_, _)
SortBy(s, crit) ==
    IF s = <<>> THEN <<>>
    ELSE InsertSorted(SortBy(SubSeq(s, 1, Len(s) - 1), crit), s[Len(s)], crit)

\* RunQuery reading the whole cursor, whatever the limit.
RunQuery_NoLimit(q, username) ==
    LET matched == SelectSeq(tasks, LAMBDA d : MatchesQuery(d, q, username))
        sorted == IF SortCriteria(q) = <<>> THEN matched
                  ELSE SortBy(matched, SortCriteria(q))
    IN SubSeq(sorted, q.skip + 1, Len(sorted))

\* find(query).skip(skip).limit(limit)[.sort(...)] read by to_list(length=limit)
RunQuery(q, username) ==
    LET matched == SelectSeq(tasks, LAMBDA d : MatchesQuery(d, q, username))
        sorted == IF SortCriteria(q) = <<>> THEN matched
                  ELSE SortBy(matched, SortCriteria(q))
        skipped == SubSeq(sorted, q.skip + 1, Len(sorted))
    IN SubSeq(skipped, 1, IF q.limit < Len(skipped) THEN q.limit ELSE Len(skipped))

\* The sort check never taken.
SortOrderWithoutSortBy_Never(q) == FALSE

\* if sort_order is not None and sort_by is None
SortOrderWithoutSortBy(q) == q.sort_order # None /\ q.sort_by = None

\* GET /tasks
get_task(r) ==
    /\ reqs[r].op = "get_task" /\ reqs[r].pc = "body"
    /\ LET q == reqs[r].args
           found == RunQuery(q, reqs[r].user.username)
       IN IF q.skip < 0 \/ q.limit > LimitCeiling
          THEN Respond(r, 422, <<>>, <<>>)
          ELSE IF SortOrderWithoutSortBy(q)
          THEN Respond(r, 400, <<>>, <<>>)
          ELSE IF q.limit < 0
          THEN \* to_list(length=limit) raises ValueError, answered 500
               Respond(r, 500, <<>>, <<>>)
          ELSE Respond(r, 200,
                       [i \in 1..Len(found) |-> convert_to_task_response(found[i])],
                       <<"tasks.find">>)
    /\ UNCHANGED <<users, tasks, tokens, now, motor_db>>

(***************************************************************************)
(* database.py: the Database object motor_db.  db_client is None, the      *)
(* client opened without credentials, or the authenticated client; logged  *)
(* is the last message written to database_logger.                         *)
(***************************************************************************)
Database == [db_client |-> None, logged |-> None]

\* motor_db once lifespan has run connect_and_init_db to its end
Connected == [db_client |-> "authenticated", logged |-> "Mongo connection established"]

\* The methods are called from lifespan and from outside request handling.
Quiet == \A r \in Slots : reqs[r].pc \in {"idle", "done"}

\* connect_and_init_db runs to its end
connect_and_init_db ==
    /\ Quiet
    /\ motor_db' = Connected
    /\ UNCHANGED <<users, tasks, tokens, now, reqs>>

\* connect_and_init_db raises: from the first AsyncIOMotorClient(...), before
\* db_client is assigned, or from a command or the second client, after it
connect_and_init_db_fails ==
    /\ Quiet
    /\ \E at \in {"client", "command"} :
          motor_db' = [db_client |-> IF at = "client" THEN motor_db.db_client
                                    ELSE "unauthenticated",
                       logged |-> "Failed to connect to the database"]
    /\ UNCHANGED <<users, tasks, tokens, now, reqs>>

close_db_connection ==
    /\ Quiet
    /\ motor_db' = IF motor_db.db_client = None
                   THEN [motor_db EXCEPT !.logged = "Connection is None, nothing to close"]
                   ELSE [db_client |-> None, logged |-> "Mongo connection closed"]
    /\ UNCHANGED <<users, tasks, tokens, now, reqs>>

\* Depends(motor_db.get_database) of a request that has used no store yet:
\* RuntimeError with no client, answered 500
get_database_raises(r) ==
    /\ reqs[r].pc \in {"auth", "body"} /\ reqs[r].log = <<>>
    /\ motor_db.db_client = None
    /\ Respond(r, 500, <<>>, <<>>)
    /\ UNCHANGED <<users, tasks, tokens, now, motor_db>>

\* get_database returns db_client.get_database()
get_database == motor_db.db_client # None

(***************************************************************************)
(* Store failures: the driver raises from an awaited write.  A failed      *)
(* operation is logged with a trailing "!".  An HTTPException carries a    *)
(* detail; an exception no handler catches is answered 500 without one.    *)
(***************************************************************************)
Detail(text) == <<[detail |-> text]>>

\* create_user: insert_one raises, "except Exception" answers 500
create_user_insert_fails(r) ==
    /\ reqs[r].op = "register" /\ reqs[r].pc = "body"
    /\ ValidCreateUser(reqs[r].args)
    /\ Respond(r, 500, Detail("Error inserting new user in the database"),
               <<"users.insert_one!">>)
    /\ UNCHANGED <<users, tasks, tokens, now, motor_db>>

\* update_user: update_one on users raises, "except Exception" answers 404
update_user_write_fails(r) ==
    /\ reqs[r].op = "update_user" /\ reqs[r].pc = "body"
    /\ UpdateUserRequired \subseteq DOMAIN reqs[r].args
    /\ reqs[r].args["password"] # None
    /\ Respond(r, 404, Detail("Error updating given user"), <<"users.update_one!">>)
    /\ UNCHANGED <<users, tasks, tokens, now, motor_db>>

\* The failed cascade undoing the rename of the user record.
update_user_cascade_fails_Rollback(r) ==
    /\ reqs[r].op = "update_user" /\ reqs[r].pc = "cascade"
    /\ users' = [i \in 1..Len(users) |->
                    IF users[i].username = reqs[r].args["username"]
                    THEN [users[i] EXCEPT !.username = reqs[r].user.username]
                    ELSE users[i]]
    /\ Respond(r, 500, Detail("Dependencies in tasks collection cannot be updated"),
               <<"tasks.update_many!">>)
    /\ UNCHANGED <<tasks, tokens, now, motor_db>>

\* update_user: update_many on tasks raises; update_username_dependencies
\* raises HTTPException(500), which update_user wraps in another 500
update_user_cascade_fails(r) ==
    /\ reqs[r].op = "update_user" /\ reqs[r].pc = "cascade"
    /\ Respond(r, 500, Detail("Dependencies in tasks collection cannot be updated"),
               <<"tasks.update_many!">>)
    /\ UNCHANGED <<users, tasks, tokens, now, motor_db>>

\* update_task: update_one raises, "except Exception" answers 500
update_task_write_fails(r) ==
    /\ reqs[r].op = "update_task" /\ reqs[r].pc = "body"
    /\ NonEmptyFullUpdate(reqs[r].args.task_update)
    /\ IsUUID(reqs[r].args.task_id)
    /\ Respond(r, 500, Detail("Task was not updated"), <<"tasks.update_one!">>)
    /\ UNCHANGED <<users, tasks, tokens, now, motor_db>>

\* delete_task: delete_one raises outside any try, the framework answers 500
delete_task_write_fails(r) ==
    /\ reqs[r].op = "delete_task" /\ reqs[r].pc = "body"
    /\ IsUUID(reqs[r].args.task_id)
    /\ Respond(r, 500, <<>>, <<"tasks.delete_one!">>)
    /\ UNCHANGED <<users, tasks, tokens, now, motor_db>>

(***************************************************************************)
(* Request inputs                                                          *)
(***************************************************************************)
RegisterPayloads ==
    {[username |-> u, password |-> "pw1"] : u \in Usernames}
    \cup {[username |-> "bob"]}

LoginArgs == [username : Usernames, password : Passwords]

UpdateUserPayloads ==
    {[username |-> "bob", password |-> "pw2", email |-> None, full_name |-> None],
     [username |-> None, password |-> "pw1", email |-> None, full_name |-> None],
     [username |-> "bob", password |-> None, email |-> None, full_name |-> None],
     [email |-> "e1"]}

CreateTaskPayloads ==
    {[title |-> "x", status |-> "open"],
     [title |-> "x", status |-> "open", label |-> "l1", deadline |-> 1],
     [description |-> "d"]}

UpdateTaskPayloads ==
    {<<>>,
     [title |-> None, description |-> None, status |-> None],
     [title |-> "z", description |-> None, status |-> None],
     [title |-> "z"]}

UpdateTaskArgs == [task_id : PathIds, task_update : UpdateTaskPayloads]

DeleteTaskArgs == [task_id : PathIds]

NoArgs == {<<>>}

DefaultQuery ==
    [task_status |-> None, sort_by |-> None, sort_order |-> None,
     include_labels |-> {}, max_deadline |-> NullTime, min_deadline |-> NullTime,
     skip |-> 0, limit |-> 100]

QueryArgs ==
    {DefaultQuery,
     [DefaultQuery EXCEPT !.task_status = "open"],
     [DefaultQuery EXCEPT !.task_status = ""],
     [DefaultQuery EXCEPT !.task_status = "late", !.include_labels = {"l1", "l2"}],
     [DefaultQuery EXCEPT !.sort_order = "desc"],
     [DefaultQuery EXCEPT !.sort_by = "created_at", !.sort_order = "desc"],
     [DefaultQuery EXCEPT !.sort_by = "updated_at"],
     [DefaultQuery EXCEPT !.include_labels = {"l2"}, !.min_deadline = 1],
     [DefaultQuery EXCEPT !.skip = 1, !.limit = 1],
     [DefaultQuery EXCEPT !.skip = -1, !.sort_order = "asc"],
     [DefaultQuery EXCEPT !.limit = -1]}

\* Every combination of the query parameters of GET /tasks.
FullQueryArgs ==
    [task_status : {None, "open"}, sort_by : {None, "created_at"},
     sort_order : {None, "asc", "desc"}, include_labels : {{}, {"l1"}},
     max_deadline : {NullTime, 1}, min_deadline : {NullTime, 1},
     skip : {-1, 0, 1}, limit : {-1, 0, 1, LimitCeiling, LimitCeiling + 1}]

(***************************************************************************)
(* The collections found at startup.  connect_and_init_db attaches to the  *)
(* database as it is; tasks written by earlier runs are there.             *)
(***************************************************************************)
SeedTask1(owner) ==
    [id |-> "t1", title |-> "x", description |-> None, status |-> "open",
     owner |-> owner, label |-> "l1", deadline |-> Midnight(1),
     created_at |-> 0, updated_at |-> NullTime]

SeedTask2(owner) ==
    [id |-> "t2", title |-> "y", description |-> "d", status |-> "done",
     owner |-> owner, label |-> "l2", deadline |-> Midnight(2),
     created_at |-> 1, updated_at |-> NullTime]

SeedCollections ==
    {<<>>,
     <<SeedTask1("alice"), SeedTask2("alice")>>,
     <<SeedTask1("alice"), SeedTask2("bob")>>}

(***************************************************************************)
(* Specification                                                           *)
(***************************************************************************)
Init ==
    /\ users = <<>>
    /\ tasks \in SeedCollections
    /\ tokens = {}
    /\ now = Midnight(1)
    /\ reqs = [r \in Slots |-> Idle]
    /\ motor_db = Connected

InFlight(op) == Cardinality({r \in Slots : reqs[r].op = op /\ reqs[r].pc # "done"})

Tick ==
    /\ now < MaxTime
    /\ now' = now + 1
    /\ UNCHANGED <<users, tasks, tokens, reqs, motor_db>>

Arrive(r) ==
    \/ /\ Len(users) + InFlight("register") < MaxUsers
       /\ Receive(r, "register", RegisterPayloads)
    \/ /\ Cardinality(tokens) + InFlight("login") < MaxTokens
       /\ Receive(r, "login", LoginArgs)
    \/ Receive(r, "read_my_user", NoArgs)
    \/ Receive(r, "update_user", UpdateUserPayloads)
    \/ Receive(r, "create_task", CreateTaskPayloads)
    \/ Receive(r, "update_task", UpdateTaskArgs)
    \/ Receive(r, "delete_task", DeleteTaskArgs)
    \/ Receive(r, "get_task", QueryArgs)

Step(r) ==
    \/ Authenticate(r)
    \/ create_user(r)
    \/ login_for_access_token(r)
    \/ read_my_user(r)
    \/ update_user(r)
    \/ update_user_refetch(r)
    \/ update_user_cascade(r)
    \/ create_task(r)
    \/ update_task(r)
    \/ update_task_refetch(r)
    \/ delete_task(r)
    \/ get_task(r)

\* One request at a time, the clock standing still.
Next == Arrive("r1") \/ Step("r1")

Spec == Init /\ [][Next]_vars

\* Registration, login and the auth gate while the clock runs.
NextClock ==
    \/ Tick
    \/ /\ Len(users) < MaxUsers
       /\ Receive("r1", "register", RegisterPayloads)
    \/ /\ Cardinality(tokens) < MaxTokens
       /\ Receive("r1", "login", LoginArgs)
    \/ Receive("r1", "read_my_user", NoArgs)
    \/ Authenticate("r1")
    \/ create_user("r1")
    \/ login_for_access_token("r1")
    \/ read_my_user("r1")

SpecClock == Init /\ [][NextClock]_vars

RaceRegister == {[username |-> "alice", password |-> "pw1"]}

\* Registration, login and GET /tasks over the whole query space.
NextQuery ==
    \/ /\ Len(users) < 1
       /\ Receive("r1", "register", RaceRegister)
    \/ /\ Cardinality(tokens) < MaxTokens
       /\ Receive("r1", "login", LoginArgs)
    \/ Receive("r1", "get_task", FullQueryArgs)
    \/ Authenticate("r1")
    \/ create_user("r1")
    \/ login_for_access_token("r1")
    \/ get_task("r1")

SpecQuery == Init /\ [][NextQuery]_vars

\* A task created in the instant before startup.
RecentTask(owner) == [SeedTask1(owner) EXCEPT !.created_at = Midnight(1)]

StampUpdates ==
    [task_id : {"T1"},
     task_update : {[title |-> "z", description |-> None, status |-> None],
                    [title |-> "x", description |-> "d", status |-> None]}]

InitStamp ==
    /\ users = <<>>
    /\ tasks = <<RecentTask("alice"), SeedTask2("alice")>>
    /\ tokens = {}
    /\ now = Midnight(1)
    /\ reqs = [r \in Slots |-> Idle]
    /\ motor_db = Connected

\* Updates of a task while the clock runs.
NextStamp ==
    \/ Tick
    \/ /\ Len(users) < 1
       /\ Receive("r1", "register", RaceRegister)
    \/ /\ Cardinality(tokens) < MaxTokens
       /\ Receive("r1", "login", LoginArgs)
    \/ Receive("r1", "update_task", StampUpdates)
    \/ Authenticate("r1")
    \/ create_user("r1")
    \/ login_for_access_token("r1")
    \/ update_task("r1")
    \/ update_task_refetch("r1")

SpecStamp == InitStamp /\ [][NextStamp]_vars

\* Two requests in flight at once: the event loop switches between them at
\* every await, so their store steps interleave.
RaceRename ==
    {[username |-> "bob", password |-> "pw2", email |-> None, full_name |-> None]}

ArriveRace(r) ==
    \/ /\ Len(users) + InFlight("register") < 1
       /\ Receive(r, "register", RaceRegister)
    \/ /\ Cardinality(tokens) + InFlight("login") < MaxTokens
       /\ Receive(r, "login", LoginArgs)
    \/ Receive(r, "update_user", RaceRename)
    \/ Receive(r, "get_task", {DefaultQuery})

StepRace(r) ==
    \/ Authenticate(r)
    \/ create_user(r)
    \/ login_for_access_token(r)
    \/ update_user(r)
    \/ update_user_refetch(r)
    \/ update_user_cascade(r)
    \/ get_task(r)

NextRace == \E r \in Slots : ArriveRace(r) \/ StepRace(r)

SpecRace == Init /\ [][NextRace]_vars

\* Two requests on the same task in flight at once.
RaceUpdates ==
    [task_id : {"T1"},
     task_update : {[title |-> "z", description |-> None, status |-> None],
                    [title |-> "w", description |-> None, status |-> None]}]

RaceDelete == {[task_id |-> "T1"]}

ArriveTaskRace(r) ==
    \/ /\ Len(users) + InFlight("register") < 1
       /\ Receive(r, "register", RaceRegister)
    \/ /\ Cardinality(tokens) + InFlight("login") < MaxTokens
       /\ Receive(r, "login", LoginArgs)
    \/ Receive(r, "update_task", RaceUpdates)
    \/ Receive(r, "delete_task", RaceDelete)

StepTaskRace(r) ==
    \/ Authenticate(r)
    \/ create_user(r)
    \/ login_for_access_token(r)
    \/ update_task(r)
    \/ update_task_refetch(r)
    \/ delete_task(r)

NextTaskRace == \E r \in Slots : ArriveTaskRace(r) \/ StepTaskRace(r)

SpecTaskRace == Init /\ [][NextTaskRace]_vars

\* Registration, login, rename and the auth gate while the clock runs.
NextRenameClock ==
    \/ Tick
    \/ /\ Len(users) < MaxUsers
       /\ Receive("r1", "register", RaceRegister)
    \/ /\ Cardinality(tokens) < MaxTokens
       /\ Receive("r1", "login", LoginArgs)
    \/ Receive("r1", "read_my_user", NoArgs)
    \/ Receive("r1", "update_user", RaceRename)
    \/ Authenticate("r1")
    \/ create_user("r1")
    \/ login_for_access_token("r1")
    \/ read_my_user("r1")
    \/ update_user("r1")
    \/ update_user_refetch("r1")
    \/ update_user_cascade("r1")

SpecRenameClock == Init /\ [][NextRenameClock]_vars

\* A rename in flight together with task requests, from a store in which
\* alice is registered and owns both tasks.
SeedUser(username) ==
    [id |-> 1, username |-> username, email |-> None, full_name |-> None,
     hashed_password |-> get_hashed_password("pw1"),
     created_at |-> 0, updated_at |-> NullTime]

InitOwned ==
    /\ users = <<SeedUser("alice")>>
    /\ tasks = <<SeedTask1("alice"), SeedTask2("alice")>>
    /\ tokens = {}
    /\ now = Midnight(1)
    /\ reqs = [r \in Slots |-> Idle]
    /\ motor_db = Connected

OwnedRegister == {[username |-> "bob", password |-> "pw1"]}

OwnedUpdates ==
    [task_id : {"T1"}, task_update : {[title |-> "z", description |-> None, status |-> None]}]

OwnedCreates == {[title |-> "x", status |-> "open"]}

ArriveOwned(r) ==
    \/ /\ Len(users) + InFlight("register") < MaxUsers
       /\ Receive(r, "register", OwnedRegister)
    \/ /\ Cardinality(tokens) + InFlight("login") < 1
       /\ Receive(r, "login", {[username |-> "alice", password |-> "pw1"]})
    \/ Receive(r, "update_user", RaceRename)
    \/ Receive(r, "update_task", OwnedUpdates)
    \/ Receive(r, "create_task", OwnedCreates)

StepOwned(r) ==
    \/ Authenticate(r)
    \/ create_user(r)
    \/ login_for_access_token(r)
    \/ update_user(r)
    \/ update_user_refetch(r)
    \/ update_user_cascade(r)
    \/ update_task(r)
    \/ update_task_refetch(r)
    \/ create_task(r)

NextOwned == \E r \in Slots : ArriveOwned(r) \/ StepOwned(r)

SpecOwned == InitOwned /\ [][NextOwned]_vars

\* One request at a time, every awaited write free to fail.
BothRegister == {[username |-> u, password |-> "pw1"] : u \in Usernames}

NextFail ==
    \/ /\ Len(users) < MaxUsers
       /\ Receive("r1", "register", BothRegister)
    \/ /\ Cardinality(tokens) < MaxTokens
       /\ Receive("r1", "login", LoginArgs)
    \/ Receive("r1", "update_user", RaceRename)
    \/ Receive("r1", "update_task", StampUpdates)
    \/ Receive("r1", "delete_task", RaceDelete)
    \/ Authenticate("r1")
    \/ create_user("r1") \/ create_user_insert_fails("r1")
    \/ login_for_access_token("r1")
    \/ update_user("r1") \/ update_user_write_fails("r1")
    \/ update_user_refetch("r1")
    \/ update_user_cascade("r1") \/ update_user_cascade_fails("r1")
    \/ update_task("r1") \/ update_task_write_fails("r1")
    \/ update_task_refetch("r1")
    \/ delete_task("r1") \/ delete_task_write_fails("r1")

SpecFail == Init /\ [][NextFail]_vars

\* The Database object from its construction on, its methods called in any
\* order, with register and login requests resolving their dependency.
InitDb ==
    /\ users = <<>>
    /\ tasks = <<>>
    /\ tokens = {}
    /\ now = Midnight(1)
    /\ reqs = [r \in Slots |-> Idle]
    /\ motor_db = Database

NextDb ==
    \/ connect_and_init_db
    \/ connect_and_init_db_fails
    \/ close_db_connection
    \/ /\ Len(users) < MaxUsers
       /\ Receive("r1", "register", BothRegister)
    \/ /\ Cardinality(tokens) < MaxTokens
       /\ Receive("r1", "login", LoginArgs)
    \/ Receive("r1", "read_my_user", NoArgs)
    \/ get_database_raises("r1")
    \/ get_database /\ Authenticate("r1")
    \/ get_database /\ create_user("r1")
    \/ get_database /\ login_for_access_token("r1")
    \/ get_database /\ read_my_user("r1")

SpecDb == InitDb /\ [][NextDb]_vars

(***************************************************************************)
(* Properties                                                              *)
(***************************************************************************)
Done(r, op) == reqs[r].op = op /\ reqs[r].pc = "done"

\* The request in slot r runs the handler step that starts at pc.
Runs(r, op, pc) == reqs[r].op = op /\ reqs[r].pc = pc /\ reqs'[r].pc # pc

\* C1: every task a successful GET /tasks returns is owned by the caller's
\* username, whatever the filters, sort and pagination.
C1_ListOnlyOwnTasks ==
    \A r \in Slots :
        Done(r, "get_task") /\ reqs[r].status = 200 =>
            \A i \in 1..Len(reqs[r].body) :
                reqs[r].body[i].owner = reqs[r].user.username

\* A list that returned a task while the store holds a task of another owner.
C1_Witness ==
    \E r \in Slots :
        /\ Done(r, "get_task") /\ reqs[r].status = 200
        /\ Len(reqs[r].body) > 0
        /\ \E i \in 1..Len(tasks) : tasks[i].owner # reqs[r].user.username

\* The update payload passes validation and keeps a field after the nulls
\* are dropped.
NonEmptyUpdate(payload) ==
    /\ UpdateTaskRequired \subseteq DOMAIN payload
    /\ DOMAIN NonNoneFields(payload) # {}

\* The request in slot r names, by a well-formed id, a stored task that its
\* caller does not own.
NamesForeignTask(r) ==
    /\ IsUUID(reqs[r].args.task_id)
    /\ \E i \in 1..Len(tasks) :
          /\ tasks[i].id = ParseUUID(reqs[r].args.task_id)
          /\ tasks[i].owner # reqs[r].user.username

\* C2: update (with a non-empty payload) and delete of a task owned by
\* another user both end 404 and leave the task store as it was.
C2_ForeignTaskNotFound ==
    [][\A r \in Slots :
          /\ (/\ Runs(r, "update_task", "body")
              /\ NonEmptyUpdate(reqs[r].args.task_update)
              /\ NamesForeignTask(r))
             => (reqs'[r].pc = "done" /\ reqs'[r].status = 404 /\ tasks' = tasks)
          /\ (Runs(r, "delete_task", "body") /\ NamesForeignTask(r))
             => (reqs'[r].pc = "done" /\ reqs'[r].status = 404 /\ tasks' = tasks)
      ]_vars

\* An update answered 404 whose id names a task that another user owns.
C2_Witness ==
    \E r \in Slots :
        /\ Done(r, "update_task") /\ reqs[r].status = 404
        /\ reqs[r].user.found
        /\ NonEmptyUpdate(reqs[r].args.task_update)
        /\ NamesForeignTask(r)

\* C3: a token issued for U resolves to U at every instant before its
\* expiration instant (while U's record exists) and is answered 401 at that
\* instant and ever after.
C3_TokenLifetime ==
    [][\A r \in Slots :
          (reqs[r].pc = "auth" /\ reqs'[r].pc # "auth" /\ reqs[r].token \in tokens) =>
             LET claims == reqs[r].token.claims
             IN IF now >= claims["expiration"]
                THEN reqs'[r].pc = "done" /\ reqs'[r].status = 401
                ELSE get_user(claims["sub"]).found =>
                        /\ reqs'[r].user.found
                        /\ reqs'[r].user.username = claims["sub"]
      ]_vars

\* C4: the auth gate answers 401, and nothing else, to a token whose
\* signature does not verify, that has no subject, or whose subject names
\* no stored user; no record is modified.
C4_UnauthenticatedIs401 ==
    [][\A r \in Slots :
          (/\ reqs[r].pc = "auth" /\ reqs'[r].pc # "auth"
           /\ reqs[r].token.kind = "jwt"
           /\ \/ ~reqs[r].token.sig
              \/ "sub" \notin DOMAIN reqs[r].token.claims
              \/ ~get_user(reqs[r].token.claims["sub"]).found)
          => /\ reqs'[r].pc = "done" /\ reqs'[r].status = 401
             /\ users' = users /\ tasks' = tasks
      ]_vars

\* Store operations of the handlers behind the gate: every operation on
\* tasks, every write of users.
GatedOps == {"tasks.insert_one", "tasks.update_one", "tasks.find_one",
             "tasks.delete_one", "tasks.find", "tasks.update_many",
             "users.update_one", "users.insert_one"}

\* C5: a request to an owner-scoped handler touches tasks, or writes users,
\* only after the gate resolved its token to a user; before that it has at
\* most the gate's own lookup behind it.  Only register and login reach
\* the store without a resolved user.
C5_GateBeforeStore ==
    \A r \in Slots :
        /\ (reqs[r].op \in {"read_my_user", "update_user", "create_task",
                            "update_task", "delete_task", "get_task"}
            /\ \E i \in 1..Len(reqs[r].log) : reqs[r].log[i] \in GatedOps)
           => (reqs[r].user.found /\ reqs[r].log[1] = "users.find_one")
        /\ (Len(reqs[r].log) > 0 /\ ~reqs[r].user.found)
           => \/ reqs[r].op \in {"register", "login"}
              \/ reqs[r].log = <<"users.find_one">> /\ reqs[r].status = 401

\* A delete that reached the task store, behind a resolved token.
C5_Witness ==
    \E r \in Slots :
        /\ Done(r, "delete_task") /\ reqs[r].status = 200
        /\ reqs[r].user.found
        /\ reqs[r].log = <<"users.find_one", "tasks.delete_one">>

\* A rename old -> new whose write of the user record is done and whose
\* rewrite of the task owners is still to come.
RenameInFlight(r, old, new) ==
    /\ reqs[r].op = "update_user"
    /\ reqs[r].pc \in {"refetch", "cascade"}
    /\ reqs[r].user.username = old
    /\ reqs[r].args.username = new
    /\ old # new

\* C6: a rename is atomic for every other request: a request that lists by
\* the new username while the rename is under way gets every task the
\* renamed user owns, and once the rename has answered no task carries the
\* old owner.
C6_RenameAtomic ==
    [][\A r \in Slots :
          /\ (Runs(r, "get_task", "body") /\ reqs'[r].status = 200) =>
                \A r2 \in Slots \ {r}, old \in Usernames :
                    RenameInFlight(r2, old, reqs[r].user.username) =>
                        \A i \in 1..Len(tasks) :
                            tasks[i].owner = old =>
                               \E j \in 1..Len(reqs'[r].body) :
                                   reqs'[r].body[j].id = tasks[i].id
          /\ (Runs(r, "update_user", "cascade") /\ reqs'[r].status = 200) =>
                \A i \in 1..Len(tasks') : tasks'[i].owner # reqs[r].user.username
      ]_vars

\* C7: no two user records carry the same username, whatever registrations
\* and profile updates have run.
C7_UsernamesUnique ==
    \A i, j \in 1..Len(users) : users[i].username = users[j].username => i = j

\* C8: no user record holds a plaintext password: no record has a password
\* key, and no field of a record is a password a client supplied.
C8_NoPlaintextStored ==
    \A i \in 1..Len(users) :
        /\ "password" \notin DOMAIN users[i]
        /\ \A k \in {"username", "email", "full_name", "hashed_password"} :
               users[i][k] \notin Passwords

\* A profile update that changed the password has answered; the record
\* holds the hash of the new password.
C8_Witness ==
    \E r \in Slots :
        /\ Done(r, "update_user") /\ reqs[r].status = 200
        /\ reqs[r].args.password = "pw2"
        /\ \E i \in 1..Len(users) :
               users[i].hashed_password = get_hashed_password("pw2")

\* No field present, or every field null.
EmptyFieldSet(payload) == \A k \in DOMAIN payload : payload[k] = None

\* C9: for an authenticated caller an update with an empty field set is
\* answered 400 whatever the task id, and the task store is unchanged.
C9_EmptyUpdateIs400 ==
    [][\A r \in Slots :
          (Runs(r, "update_task", "body") /\ EmptyFieldSet(reqs[r].args.task_update))
          => /\ reqs'[r].pc = "done" /\ reqs'[r].status = 400
             /\ tasks' = tasks
      ]_vars

\* skip >= 0 and limit <= 500, the pagination the endpoint declares.
DeclaredPagination(q) == q.skip >= 0 /\ q.limit <= LimitCeiling

ListResponse(q, username) ==
    LET found == RunQuery(q, username)
    IN [i \in 1..Len(found) |-> convert_to_task_response(found[i])]

\* C11: a list with sort_by and without sort_order answers with the same
\* sequence as the same request with sort_order=asc.
C11_SortDefaultsAscending ==
    [][\A r \in Slots :
          (/\ Runs(r, "get_task", "body")
           /\ reqs[r].args.sort_by \in {"created_at", "updated_at"}
           /\ reqs[r].args.sort_order = None
           /\ DeclaredPagination(reqs[r].args) /\ reqs[r].args.limit >= 0)
          => /\ reqs'[r].status = 200
             /\ reqs'[r].body =
                   ListResponse([reqs[r].args EXCEPT !.sort_order = "asc"],
                                reqs[r].user.username)
      ]_vars

\* C12: a list answered with success returns at most limit tasks and never
\* more than 500, whatever integer limit was sent (so a negative limit is
\* never answered with success); limit > 500 or skip < 0 is rejected without
\* a query to the store; a request with declared pagination, a limit >= 0
\* and a consistent sort is answered with success even when nothing matches.
C12_LimitBoundsResult ==
    \A r \in Slots :
        (Done(r, "get_task") /\ reqs[r].user.found) =>
            LET q == reqs[r].args
            IN /\ reqs[r].status = 200 =>
                     Len(reqs[r].body) <= q.limit /\ Len(reqs[r].body) <= LimitCeiling
               /\ reqs[r].status # 200 => Len(reqs[r].body) = 0
               /\ ~DeclaredPagination(q) =>
                     /\ reqs[r].status = 422
                     /\ \A i \in 1..Len(reqs[r].log) : reqs[r].log[i] # "tasks.find"
               /\ (DeclaredPagination(q) /\ q.limit >= 0 /\ ~SortOrderWithoutSortBy(q))
                     => reqs[r].status = 200

\* The caller owns two tasks, asked for one, and got one.
C12_Witness ==
    \E r \in Slots :
        /\ Done(r, "get_task") /\ reqs[r].status = 200
        /\ reqs[r].args.limit = 1 /\ reqs[r].args.skip = 0
        /\ Len(reqs[r].body) = 1
        /\ Len(RunQuery_NoLimit(reqs[r].args, reqs[r].user.username)) = 2

\* C13: a valid create-task by an authenticated caller succeeds: it inserts
\* exactly one task, owned by the caller, with an id no stored task has and
\* a null updated_at, and returns that task.
C13_CreateInsertsOwnTask ==
    [][\A r \in Slots :
          (/\ Runs(r, "create_task", "body")
           /\ "title" \in DOMAIN reqs[r].args /\ reqs[r].args["title"] # None)
          => /\ reqs'[r].status = 200
             /\ Len(tasks') = Len(tasks) + 1
             /\ SubSeq(tasks', 1, Len(tasks)) = tasks
             /\ LET new == tasks'[Len(tasks')]
                IN /\ new.owner = reqs[r].user.username
                   /\ \A i \in 1..Len(tasks) : tasks[i].id # new.id
                   /\ new.updated_at = NullTime
                   /\ reqs'[r].body = <<convert_to_task_response(new)>>
      ]_vars

\* The ids of the stored tasks.
StoredIds(coll) == {coll[i].id : i \in 1..Len(coll)}

\* C14: a delete of a well-formed id removes the task with that id owned by
\* the caller and no other task, and is answered 404 with nothing removed
\* when no task matches id and owner.  An id that is not in the store never
\* comes back: a later update or delete of it by any user is answered 404
\* and no list returns it.
C14_DeleteRemovesOne ==
    [][/\ \A r \in Slots :
            (Runs(r, "delete_task", "body") /\ IsUUID(reqs[r].args.task_id)) =>
                LET id == ParseUUID(reqs[r].args.task_id)
                    own == {i \in 1..Len(tasks) :
                               tasks[i].id = id /\ tasks[i].owner = reqs[r].user.username}
                IN IF own = {}
                   THEN reqs'[r].status = 404 /\ tasks' = tasks
                   ELSE /\ reqs'[r].status = 200
                        /\ \E i \in own : tasks' = RemoveAt(tasks, i)
                        /\ id \notin StoredIds(tasks')
       /\ StoredIds(tasks') \subseteq StoredIds(tasks)
       /\ \A r \in Slots :
            /\ (/\ Runs(r, "update_task", "body")
                /\ NonEmptyUpdate(reqs[r].args.task_update)
                /\ IsUUID(reqs[r].args.task_id)
                /\ ParseUUID(reqs[r].args.task_id) \notin StoredIds(tasks))
               => reqs'[r].status = 404 /\ tasks' = tasks
            /\ Runs(r, "get_task", "body") =>
                  \A j \in 1..Len(reqs'[r].body) : reqs'[r].body[j].id \in StoredIds(tasks)
      ]_vars

\* A delete has removed the caller's task t1; the other task is still there.
C14_Witness ==
    \E r \in Slots :
        /\ Done(r, "delete_task") /\ reqs[r].status = 200
        /\ ParseUUID(reqs[r].args.task_id) = "t1"
        /\ StoredIds(tasks) = {"t2"}

\* C15: POST /token issues a token for the username if and only if some user
\* record has that username and a hash the password verifies against (so
\* after a profile update to new username and password the new credentials
\* log in and the old ones do not); otherwise 401 and no token.
C15_LoginIffCredentialsMatch ==
    [][\A r \in Slots :
          Runs(r, "login", "body") =>
             LET matches == \E i \in 1..Len(users) :
                               /\ users[i].username = reqs[r].args.username
                               /\ verify_password(reqs[r].args.password,
                                                  users[i].hashed_password)
             IN IF matches
                THEN /\ reqs'[r].status = 200
                     /\ Len(reqs'[r].body) = 1
                     /\ reqs'[r].body[1].claims["sub"] = reqs[r].args.username
                     /\ tokens' = tokens \cup {reqs'[r].body[1]}
                ELSE reqs'[r].status = 401 /\ tokens' = tokens
      ]_vars

\* The hashes of the passwords clients supply.
PasswordHashes == {get_hashed_password(p) : p \in Passwords}

C17_MalformedIdIs400 ==
    [][\A r \in Slots :
          (/\ \/ Runs(r, "update_task", "body") /\ NonEmptyUpdate(reqs[r].args.task_update)
              \/ Runs(r, "delete_task", "body")
           /\ ~IsUUID(reqs[r].args.task_id))
          => /\ reqs'[r].pc = "done" /\ reqs'[r].status = 400
             /\ tasks' = tasks
      ]_vars

\* The ids of the tasks in a response body.
BodyIds(body) == {body[j].id : j \in 1..Len(body)}

\* C18: with skip = 0, no deadline bound and enough limit, a list returns
\* exactly the caller's tasks whose status is the given task_status (when
\* one is given) and whose label is in include_labels (when given); a status
\* no task has gives an empty list, with success.
C18_StatusAndLabelFilter ==
    [][\A r \in Slots :
          (/\ Runs(r, "get_task", "body")
           /\ reqs[r].args.skip = 0 /\ reqs[r].args.limit > Len(tasks)
           /\ reqs[r].args.limit <= LimitCeiling
           /\ reqs[r].args.max_deadline = NullTime /\ reqs[r].args.min_deadline = NullTime
           /\ ~SortOrderWithoutSortBy(reqs[r].args))
          => LET q == reqs[r].args
                 expected ==
                    {tasks[i].id : i \in {i \in 1..Len(tasks) :
                        /\ tasks[i].owner = reqs[r].user.username
                        /\ (q.task_status = None \/ tasks[i].status = q.task_status)
                        /\ (q.include_labels = {} \/ tasks[i].label \in q.include_labels)}}
             IN /\ reqs'[r].status = 200
                /\ BodyIds(reqs'[r].body) = expected
                /\ Len(reqs'[r].body) = Cardinality(expected)
      ]_vars

\* C19: a task created with deadline date d is stored with deadline d at
\* midnight, and a list with min_deadline and/or max_deadline returns
\* exactly the caller's tasks whose deadline lies between the bounds at
\* midnight, both inclusive.
C19_DeadlineStoredAndFiltered ==
    [][\A r \in Slots :
          /\ (Runs(r, "create_task", "body") /\ "deadline" \in DOMAIN reqs[r].args) =>
                /\ reqs'[r].status = 200
                /\ Len(tasks') = Len(tasks) + 1
                /\ tasks'[Len(tasks')].deadline = Midnight(reqs[r].args["deadline"])
          /\ (/\ Runs(r, "get_task", "body")
              /\ reqs[r].args.skip = 0 /\ reqs[r].args.limit > Len(tasks)
              /\ reqs[r].args.limit <= LimitCeiling
              /\ reqs[r].args.task_status = None /\ reqs[r].args.include_labels = {}
              /\ ~SortOrderWithoutSortBy(reqs[r].args)) =>
                LET q == reqs[r].args
                IN BodyIds(reqs'[r].body) =
                      {tasks[i].id : i \in {i \in 1..Len(tasks) :
                          /\ tasks[i].owner = reqs[r].user.username
                          /\ (q.min_deadline = NullTime
                              \/ (tasks[i].deadline # NullTime
                                  /\ Midnight(q.min_deadline) <= tasks[i].deadline))
                          /\ (q.max_deadline = NullTime
                              \/ (tasks[i].deadline # NullTime
                                  /\ tasks[i].deadline <= Midnight(q.max_deadline)))}}
      ]_vars

\* The fields of a task that a request may name in an update.
PayloadFields == {"title", "description", "status"}

\* C20: an update changes, in the one task it matches, only the fields the
\* payload gives a value for, and updated_at; id, owner and created_at stay,
\* the other fields keep their values, no other task changes.  Only the
\* rename cascade changes an owner.
C20_UpdateFrame ==
    [][/\ \A r \in Slots :
            Runs(r, "update_task", "body") =>
               \/ tasks' = tasks
               \/ LET payload == reqs[r].args.task_update
                      given == {k \in PayloadFields \cap DOMAIN payload : payload[k] # None}
                  IN /\ Len(tasks') = Len(tasks)
                     /\ \E i \in 1..Len(tasks) :
                           /\ \A j \in 1..Len(tasks) : j # i => tasks'[j] = tasks[j]
                           /\ tasks[i].id = ParseUUID(reqs[r].args.task_id)
                           /\ DOMAIN tasks'[i] = DOMAIN tasks[i]
                           /\ \A k \in DOMAIN tasks[i] :
                                 IF k \in given THEN tasks'[i][k] = payload[k]
                                 ELSE k # "updated_at" => tasks'[i][k] = tasks[i][k]
       /\ \A r \in Slots : Runs(r, "update_task", "refetch") => tasks' = tasks
       /\ (\E i \in 1..Len(tasks) : i <= Len(tasks') /\ tasks'[i].id = tasks[i].id
                                    /\ tasks'[i].owner # tasks[i].owner)
          => \E r \in Slots : Runs(r, "update_user", "cascade")
      ]_vars

\* An update of the title of t1 alone has been answered: the title is new,
\* status and label are the old ones.
C20_Witness ==
    \E r \in Slots :
        /\ Done(r, "update_task") /\ reqs[r].status = 200
        /\ reqs[r].args.task_update.title = "z"
        /\ \E i \in 1..Len(tasks) :
              /\ tasks[i].id = "t1" /\ tasks[i].title = "z"
              /\ tasks[i].status = "open" /\ tasks[i].label = "l1"
              /\ tasks[i].updated_at = now

\* C21: updated_at of a task changes only in an update of that task, and
\* the update leaves it non-null, not earlier than the task's created_at and
\* not earlier than its previous updated_at.
C21_UpdatedAtAdvances ==
    [][\A i \in 1..Len(tasks) :
          (i <= Len(tasks') /\ tasks'[i].id = tasks[i].id /\ tasks'[i] # tasks[i]) =>
             \/ /\ \E r \in Slots : Runs(r, "update_task", "body")
                /\ tasks'[i].updated_at # NullTime
                /\ tasks'[i].updated_at >= tasks[i].created_at
                /\ tasks'[i].updated_at >= tasks[i].updated_at
             \/ /\ \E r \in Slots : Runs(r, "update_user", "cascade")
                /\ tasks'[i].updated_at = tasks[i].updated_at
      ]_vars

\* C22: the refetch of an update answers 404 when the task is no longer in
\* the store (a delete took effect since the update), and otherwise 200 with
\* the task as stored at that moment; it never returns a task that is not
\* in the store.
C22_RefetchSeesDelete ==
    [][\A r \in Slots :
          Runs(r, "update_task", "refetch") =>
             LET id == ParseUUID(reqs[r].args.task_id)
                 stored == {i \in 1..Len(tasks) : tasks[i].id = id}
             IN IF stored = {}
                THEN reqs'[r].status = 404 /\ Len(reqs'[r].body) = 0
                ELSE /\ reqs'[r].status = 200
                     /\ \E i \in stored :
                           reqs'[r].body = <<convert_to_task_response(tasks[i])>>
      ]_vars

\* An update wrote the task, a delete by the same owner removed it, and the
\* update's refetch answered 404.
C22_Witness ==
    \E r, r2 \in Slots :
        /\ Done(r, "update_task") /\ reqs[r].status = 404
        /\ reqs[r].log = <<"users.find_one", "tasks.update_one", "tasks.find_one">>
        /\ Done(r2, "delete_task") /\ reqs[r2].status = 200
        /\ reqs[r2].user.username = reqs[r].user.username

\* C30: an update answered with success returns, for every field its
\* payload gave a value for, that value, and the caller's username as owner,
\* whatever other updates of the same task by the same owner are in flight.
C30_UpdateReturnsOwnWrite ==
    [][\A r \in Slots :
          (Runs(r, "update_task", "refetch") /\ reqs'[r].status = 200) =>
             LET payload == reqs[r].args.task_update
                 given == {k \in PayloadFields \cap DOMAIN payload : payload[k] # None}
             IN /\ Len(reqs'[r].body) = 1
                /\ \A k \in given : reqs'[r].body[1][k] = payload[k]
                /\ reqs'[r].body[1].owner = reqs[r].user.username
      ]_vars

\* The write of the request in slot r that failed, if one did.
FailedWrites(r) ==
    {reqs[r].log[i] : i \in 1..Len(reqs[r].log)}
        \cap {"users.insert_one!", "users.update_one!", "tasks.update_many!",
              "tasks.update_one!", "tasks.delete_one!"}

\* C23: when the cascade fails, update-profile answers 500, the user record
\* keeps the new username and the tasks keep the old owner; no step of an
\* update-profile after its user write changes the user records.
C23_CascadeFailureNoRollback ==
    [][\A r \in Slots :
          /\ (reqs[r].op = "update_user" /\ reqs[r].pc \in {"refetch", "cascade"}
              /\ reqs'[r].pc # reqs[r].pc) => users' = users
          /\ (Runs(r, "update_user", "cascade") /\ FailedWrites(r)' # {}) =>
                /\ reqs'[r].status = 500
                /\ tasks' = tasks
                /\ \E i \in 1..Len(users') : users'[i].username = reqs[r].args["username"]
                /\ \A i \in 1..Len(users') :
                       users'[i].username = reqs[r].user.username =>
                          i <= Len(users) /\ users[i] = users'[i]
      ]_vars

\* The cascade of a rename alice -> bob failed: a bob record exists, the
\* tasks are still alice's.
C23_Witness ==
    \E r \in Slots :
        /\ Done(r, "update_user") /\ reqs[r].status = 500
        /\ "tasks.update_many!" \in FailedWrites(r)
        /\ reqs[r].user.username = "alice"
        /\ \E i \in 1..Len(users) : users[i].username = "bob"
        /\ \E i \in 1..Len(tasks) : tasks[i].owner = "alice"

\* C24: a request whose store write failed ends 500 with a detail message,
\* and the failed write is the last store operation it issued, issued once.
C24_WriteFailureIs500 ==
    \A r \in Slots :
        (reqs[r].pc = "done" /\ FailedWrites(r) # {}) =>
            /\ reqs[r].status = 500
            /\ Len(reqs[r].body) = 1 /\ "detail" \in DOMAIN reqs[r].body[1]
            /\ reqs[r].log[Len(reqs[r].log)] \in FailedWrites(r)
            /\ \A i \in 1..(Len(reqs[r].log) - 1) :
                   reqs[r].log[i] \notin FailedWrites(r)

\* C25: update-profile stores the value of every field present in its
\* payload, leaves every absent field of the caller's record and every other
\* user record as stored, and changes tasks only when the payload gives a
\* username other than the caller's.
C25_ProfileUpdateFrame ==
    [][\A r \in Slots :
          /\ Runs(r, "update_user", "body") =>
                LET payload == reqs[r].args
                    present == UserFields \cap DOMAIN payload
                    i == FirstIndex(users, LAMBDA d : d.username = reqs[r].user.username)
                IN /\ Len(users') = Len(users)
                   /\ \A j \in 1..Len(users) : j # i => users'[j] = users[j]
                   /\ i # 0 =>
                         /\ \A k \in (UserFields \ {"password"}) \ present :
                                users'[i][k] = users[i][k]
                         /\ "password" \notin present =>
                                users'[i].hashed_password = users[i].hashed_password
                         /\ ("password" \in present => payload["password"] # None) =>
                                \A k \in present \ {"password"} : users'[i][k] = payload[k]
          /\ (reqs[r].op = "update_user" /\ tasks' # tasks) =>
                /\ Field(reqs[r].args, "username") # None
                /\ Field(reqs[r].args, "username") # reqs[r].user.username
      ]_vars

\* C26: a request that resolves get_database while no client is set is
\* answered by the RuntimeError and uses no store; close_db_connection with
\* no client set leaves the handle unset; after a failed
\* connect_and_init_db the handle is not set.
C26_HandleLifecycle ==
    [][/\ \A r \in Slots :
             (/\ reqs[r].pc \in {"auth", "body"} /\ reqs[r].log = <<>>
              /\ motor_db.db_client = None /\ reqs'[r] # reqs[r]) =>
                 reqs'[r].status = 500 /\ reqs'[r].log = <<>>
       /\ (motor_db' # motor_db /\ motor_db.db_client = None) =>
             /\ motor_db'.logged = "Connection is None, nothing to close" =>
                   motor_db'.db_client = None
             /\ motor_db'.logged = "Failed to connect to the database" =>
                   motor_db'.db_client = None
       /\ motor_db'.logged = "Mongo connection closed" => motor_db'.db_client = None
      ]_vars

\* C27: a token authenticates only as the user record it was issued to; in
\* particular the record a request is authenticated as was registered no
\* later than the token was issued.
C27_TokenBoundToRecord ==
    [][\A r \in Slots :
          (reqs[r].pc = "auth" /\ reqs'[r].pc = "body") =>
              LET token == reqs[r].token
                  issued == token.claims["expiration"] - ACCESS_TOKEN_EXPIRE_MINUTES
                  i == FirstIndex(users, LAMBDA d : d.username = token.claims["sub"])
              IN users[i].created_at <= issued
      ]_vars

\* Ids of the tasks a user record with this username can list, update and
\* delete.
VisibleTo(coll, username) ==
    {coll[i].id : i \in {j \in 1..Len(coll) : coll[j].owner = username}}

\* Usernames held by user records other than the caller's, for a register or
\* update-profile request in slot r: before the user write the caller's
\* record is the one the write will match, after it the caller's record is
\* one of those holding the username the write has set.
HeldByOthers(r) ==
    LET current == reqs[r].user.username
        written == IF Field(reqs[r].args, "username") # None
                   THEN reqs[r].args["username"] ELSE current
        mine == FirstIndex(users, LAMBDA d : d.username = current)
        holders(u) == {j \in 1..Len(users) : users[j].username = u}
    IN IF reqs[r].op = "register"
       THEN {users[j].username : j \in 1..Len(users)}
       ELSE IF reqs[r].pc = "body"
       THEN {users[j].username : j \in (1..Len(users)) \ {mine}}
       ELSE {u \in {users[j].username : j \in 1..Len(users)} :
                u # written \/ Cardinality(holders(u)) >= 2}

\* C28: no step of a register or update-profile request adds a task to, or
\* removes a task from, the set visible to a user record other than the
\* caller's.
C28_OthersTasksUntouched ==
    [][\A r \in Slots :
          (reqs[r].op \in {"register", "update_user"} /\ reqs[r].pc # "auth"
           /\ reqs'[r] # reqs[r] /\ reqs'[r].op = reqs[r].op) =>
              \A u \in HeldByOthers(r) : VisibleTo(tasks', u) = VisibleTo(tasks, u)
      ]_vars

\* C29: whenever no request is in flight, the owner of every task is the
\* username of exactly one user record.
C29_OwnerIsOneUser ==
    Quiet =>
        \A i \in 1..Len(tasks) :
            Cardinality({j \in 1..Len(users) : users[j].username = tasks[i].owner}) = 1

====
